---------------------------- MODULE Spec2Model ----------------------------
(***************************************************************************)
(* The CMA-ES walk-through of notebooks/Evolutionary Strategies.ipynb:     *)
(* the sampling cell, the rank-weighted step cell, the mean update, the    *)
(* rank-one covariance update and the eigen-decomposition sampling cell.   *)
(*                                                                         *)
(* Numbers.  The notebook computes in float64.  Here every quantity is an  *)
(* exact rational: a vector is a record [num |-> <<integers>>, den |-> d]  *)
(* with one common denominator d > 0, reduced to lowest terms, so that two *)
(* equal values are equal records.  A matrix is the same with a sequence   *)
(* of rows.  np.log is a table of its values in thousandths.  A vector or   *)
(* matrix whose entries are all nan has the denominator 0.                 *)
(***************************************************************************)
EXTENDS Integers, Sequences, FiniteSets, TLC

\* ------------------------------------------------------------- bounds
\* Largest population size lam drawn by the sampling cell (the notebook
\* uses lam = 70).
MaxLam == 3

\* Dimension of the search space: np.eye(2), size=(lam, 2).
Dim == 2

\* ------------------------------------------------------------- arithmetic
Abs(a) == IF a < 0 THEN -a ELSE a

RECURSIVE GCD(_, _)
GCD(a, b) == IF b = 0 THEN Abs(a) ELSE GCD(Abs(b), Abs(a) % Abs(b))

RECURSIVE SeqGCD(_)
SeqGCD(q) == IF q = <<>> THEN 0 ELSE GCD(Head(q), SeqGCD(Tail(q)))

RECURSIVE Sum(_)
\* np.sum of a sequence of integers
Sum(q) == IF q = <<>> THEN 0 ELSE Head(q) + Sum(Tail(q))

\* The sequence f, every entry written out (TLC otherwise evaluates an entry
\* of [i \in 1..n |-> e] again each time it is read).
AsSeq(f) == f \o <<>>

\* The rational vector nums / den in lowest terms with den > 0.
RVec(nums, den) ==
    LET ns == AsSeq(nums)
        g  == GCD(SeqGCD(ns), den)
        sg == IF den < 0 THEN -1 ELSE 1
    IN  [num |-> AsSeq([i \in 1..Len(ns) |-> sg * (ns[i] \div g)]),
         den |-> sg * (den \div g)]

\* An integer vector as a rational vector.
IVec(v) == RVec(v, 1)

\* The vector of n entries, the n x n matrix, whose entries are all nan.
NaNVec(n) == [num |-> AsSeq([i \in 1..n |-> 0]), den |-> 0]
NaNMat(n) == [num |-> AsSeq([i \in 1..n |-> AsSeq([j \in 1..n |-> 0])]), den |-> 0]

\* Every entry of the vector or matrix v is nan.
IsNaN(v) == v.den = 0

\* a + b for rational vectors of the same length; nan + b = a + nan = nan
VAdd(a, b) ==
    IF IsNaN(a) \/ IsNaN(b) THEN NaNVec(Len(a.num))
    ELSE RVec([i \in 1..Len(a.num) |-> a.num[i] * b.den + b.num[i] * a.den],
              a.den * b.den)

\* The rational matrix rows / den in lowest terms with den > 0.
RMat(rows, den) ==
    LET rs == AsSeq([i \in 1..Len(rows) |-> AsSeq(rows[i])])
        g  == GCD(SeqGCD(AsSeq([i \in 1..Len(rs) |-> SeqGCD(rs[i])])), den)
        sg == IF den < 0 THEN -1 ELSE 1
    IN  [num |-> AsSeq([i \in 1..Len(rs) |->
                    AsSeq([j \in 1..Len(rs[i]) |-> sg * (rs[i][j] \div g)])]),
         den |-> sg * (den \div g)]

\* a + b for rational matrices of the same shape
MAdd(a, b) ==
    IF IsNaN(a) \/ IsNaN(b) THEN NaNMat(Len(a.num))
    ELSE RMat([i \in 1..Len(a.num) |->
                [j \in 1..Len(a.num[i]) |->
                    a.num[i][j] * b.den + b.num[i][j] * a.den]],
              a.den * b.den)

\* np.eye(n)
eye(n) == RMat([i \in 1..n |-> [j \in 1..n |-> IF i = j THEN 1 ELSE 0]], 1)

\* np.outer(a, b) of two rational vectors
outer(a, b) ==
    IF IsNaN(a) \/ IsNaN(b) THEN NaNMat(Len(a.num))
    ELSE RMat([i \in 1..Len(a.num) |->
                [j \in 1..Len(b.num) |-> a.num[i] * b.num[j]]],
              a.den * b.den)

\* The transpose of a matrix
Transpose(m) ==
    RMat([j \in 1..Len(m.num[1]) |-> [i \in 1..Len(m.num) |-> m.num[i][j]]], m.den)

\* ------------------------------------------------------------- objective
\* def himmelblau(x, y): return (x**2 + y - 11)**2 + (x + y**2 - 7)**2
himmelblau(x, y) ==
    (x * x + y - 11) * (x * x + y - 11) + (x + y * y - 7) * (x + y * y - 7)

\* ------------------------------------------------------------- np.log
\* round(1000 * ln n) for n = 1..31
LnTable ==
    <<0, 693, 1099, 1386, 1609, 1792, 1946, 2079, 2197, 2303, 2398, 2485,
      2565, 2639, 2708, 2773, 2833, 2890, 2944, 2996, 3045, 3091, 3135,
      3178, 3219, 3258, 3296, 3332, 3367, 3401, 3434>>

\* np.log(p / q) in thousandths, for integers p, q in 1..31
np_log(p, q) == LnTable[p] - LnTable[q]

\* ------------------------------------------------------------- scalars
\* A rational scalar is a vector of length one.
RNum(n, d) == RVec(<<n>>, d)

\* a <= b and a < b for rational scalars, compared over the least common
\* denominator
RLeq(a, b) ==
    LET g == GCD(a.den, b.den) IN
    a.num[1] * (b.den \div g) <= b.num[1] * (a.den \div g)
RLess(a, b) ==
    LET g == GCD(a.den, b.den) IN
    a.num[1] * (b.den \div g) < b.num[1] * (a.den \div g)

\* himmelblau at the rational point p = (p.num[1], p.num[2]) / p.den
himmelblau_at(p) ==
    LET d == p.den
        a == p.num[1] * p.num[1] + p.num[2] * d - 11 * d * d
        b == p.num[1] * d + p.num[2] * p.num[2] - 7 * d * d
    IN  IF d = 1 THEN RNum(himmelblau(p.num[1], p.num[2]), 1)
        ELSE RNum(a * a + b * b, d * d * d * d)

\* ------------------------------------------------------------- step cell
\* np.log(mu + 1/2) - np.log(np.arange(1, mu+1)), in thousandths
log_weights(m) == AsSeq([k \in 1..m |-> np_log(2 * m + 1, 2) - LnTable[k]])

\* Mutant of normalize: divides by the number of weights, not by their sum.
normalize_by_len(wr) == RVec(wr, 1000 * Len(wr))

\* w /= np.sum(w)
normalize(wr) == RVec(wr, Sum(wr))

\* w = np.log(mu + 1/2) - np.log(np.arange(1, mu+1)); w /= np.sum(w)
weights(m) == normalize(log_weights(m))

RECURSIVE Ascending(_, _)
\* The orders of the index set rem in which f is non-decreasing: the first
\* index is any one of least f, the rest is an order of the others.
Ascending(f, rem) ==
    IF rem = {} THEN {<<>>}
    ELSE UNION {{<<i>> \o t : t \in Ascending(f, rem \ {i})} :
                  i \in {i \in rem : \A j \in rem : RLeq(f[i], f[j])}}

RECURSIVE Descending(_, _)
\* The orders of the index set rem in which f is non-increasing.
Descending(f, rem) ==
    IF rem = {} THEN {<<>>}
    ELSE UNION {{<<i>> \o t : t \in Descending(f, rem \ {i})} :
                  i \in {i \in rem : \A j \in rem : RLeq(f[j], f[i])}}

\* Mutant of argsort: sorts descending.
argsort_descending(f) == Descending(f, 1..Len(f))

\* np.argsort(fits): the default kind is quicksort, which numpy documents as
\* not stable, so any index order that sorts fits ascending may come back.
argsort(f) == Ascending(f, 1..Len(f))

\* Mutant of weighted_rows: takes the first mu rows of N, not the rows
\* sorted_ids names (N[:mu] * w.reshape(mu, 1)).
weighted_rows_unsorted(n, ids, m, wv) ==
    AsSeq([k \in 1..m |->
        RVec([j \in 1..Dim |-> n[k].num[j] * wv.num[k]], n[k].den * wv.den)])

\* N[sorted_ids[:mu]] * w.reshape(mu, 1)
weighted_rows(n, ids, m, wv) ==
    AsSeq([k \in 1..m |->
        RVec([j \in 1..Dim |-> n[ids[k]].num[j] * wv.num[k]],
             n[ids[k]].den * wv.den)])

RECURSIVE VSum(_)
\* the sum of a non-empty sequence of rational vectors
VSum(rows) ==
    IF Len(rows) = 1 THEN rows[1] ELSE VAdd(Head(rows), VSum(Tail(rows)))

\* np.mean(weighted, axis=0): the column sums divided by the number of rows
np_mean(rows) ==
    LET t == VSum(rows) IN RVec(t.num, t.den * Len(rows))

\* s of the step cell, for the index order ids
step(n, ids, m) == np_mean(weighted_rows(n, ids, m, weights(m)))

\* Mutant of step_cell: the weights are the fitness values of the selected
\* members (normalized), not a function of their rank.
step_cell_fitness_weighted(n, f, m) ==
    {[sorted_ids |-> ids,
      w |-> RVec([k \in 1..m |-> f[ids[k]].num[1]], Sum([k \in 1..m |-> f[ids[k]].num[1]])),
      s |-> np_mean(weighted_rows(n, ids, m,
                RVec([k \in 1..m |-> f[ids[k]].num[1]],
                     Sum([k \in 1..m |-> f[ids[k]].num[1]]))))] :
        ids \in argsort(f)}

\* The step cell as a whole: what it can assign to sorted_ids, w and s when
\* run on the offsets n, the fitness values f and mu = m.
step_cell(n, f, m) ==
    {[sorted_ids |-> ids, w |-> weights(m), s |-> step(n, ids, m)] :
        ids \in argsort(f)}

\* ------------------------------------------------------------- updates
\* Mutant of update_mean: the step replaces the mean (x = s).
update_mean_replace(xv, sv) == sv

\* x = x + s
update_mean(xv, sv) == VAdd(xv, sv)

\* Mutant of update_covariance: the matrix is left as it was.
update_covariance_stale(cv, sv) == cv

\* Mutant of update_covariance: the new matrix replaces the old one.
update_covariance_replace(cv, sv) == outer(sv, sv)

\* Mutant of update_covariance: starts again from the identity.
update_covariance_from_eye(cv, sv) == MAdd(eye(Len(cv.num)), outer(sv, sv))

\* Mutant of update_covariance: adds s by broadcasting (C + s), so that
\* s[j] lands on every row of column j.
update_covariance_broadcast(cv, sv) ==
    MAdd(cv, RMat([i \in 1..Len(sv.num) |-> sv.num], sv.den))

\* C = C + np.outer(s, (s).T)   ((s).T of a 1-d array is s itself)
update_covariance(cv, sv) == MAdd(cv, outer(sv, sv))

\* c * M for a rational scalar c and a rational matrix M
MScale(c, m) ==
    RMat([i \in 1..Len(m.num) |-> [j \in 1..Len(m.num[i]) |-> c.num[1] * m.num[i][j]]],
         c.den * m.den)

\* Mutant of common_update: the rank-one term is subtracted.
common_update_minus(cv, sv, c) ==
    MAdd(MScale(RNum(c.den - c.num[1], c.den), cv),
         MScale(RNum(-c.num[1], c.den), outer(sv, sv)))

\* The "common formula" of the text: C = (1 - c_i) C + c_i s s^T
common_update(cv, sv, c) ==
    MAdd(MScale(RNum(c.den - c.num[1], c.den), cv), MScale(c, outer(sv, sv)))

\* ------------------------------------------------------------- eigen sampling
RECURSIVE IsqrtSearch(_, _, _)
IsqrtSearch(n, lo, hi) ==
    IF lo >= hi THEN lo
    ELSE LET mid == (lo + hi + 1) \div 2 IN
         IF mid * mid <= n THEN IsqrtSearch(n, mid, hi)
         ELSE IsqrtSearch(n, lo, mid - 1)

\* The integer part of the square root of n >= 0
Isqrt(n) == IsqrtSearch(n, 0, IF n < 46340 THEN n ELSE 46340)

IsSquare(n) == n >= 0 /\ Isqrt(n) * Isqrt(n) = n

\* The square root of every entry of v is rational.
ExactSqrt(v) == \A i \in 1..Len(v.num) : IsSquare(v.num[i] * v.den)

\* Mutant of np_sqrt: no square root is taken.
np_sqrt_missing(v) == v

\* np.sqrt(v), elementwise, where it is rational: sqrt(n / d) = sqrt(n d) / d
np_sqrt(v) == RVec([i \in 1..Len(v.num) |-> Isqrt(v.num[i] * v.den)], v.den)

\* a * b, elementwise, for rational vectors
VMul(a, b) ==
    RVec([i \in 1..Len(a.num) |-> a.num[i] * b.num[i]], a.den * b.den)

\* Mutant of np_dot: multiplies by the transpose (np.dot(v, m)).
np_dot_transposed(m, v) ==
    RVec([j \in 1..Len(m.num[1]) |->
            Sum([i \in 1..Len(v.num) |-> m.num[i][j] * v.num[i]])],
         m.den * v.den)

\* np.dot(m, v) for a rational matrix and a rational vector
np_dot(m, v) ==
    RVec([i \in 1..Len(m.num) |->
            Sum([j \in 1..Len(v.num) |-> m.num[i][j] * v.num[j]])],
         m.den * v.den)

\* The matrix whose columns are the rational vectors u1 and u2.
Columns(u1, u2) ==
    RMat([i \in 1..Len(u1.num) |-> <<u1.num[i] * u2.den, u2.num[i] * u1.den>>],
         u1.den * u2.den)

\* The eigenpairs of the symmetric 2 x 2 matrix c = [[a, b], [b, d]] / den:
\* the eigenvalues are (a + d +- r) / (2 den) with r = sqrt((a - d)^2 + 4 b^2),
\* the eigenvectors (2 b, d - a +- r) scaled to unit length; a diagonal
\* matrix has the eigenvalues a / den, d / den and the unit vectors.
Eigenpairs(c) ==
    LET a == c.num[1][1]
        b == c.num[1][2]
        d == c.num[2][2]
        r == Isqrt((a - d) * (a - d) + 4 * b * b)
        unit(vx, vy) == RVec(<<vx, vy>>, Isqrt(vx * vx + vy * vy))
    IN  IF b = 0
        THEN <<[val |-> RNum(a, c.den), vec |-> RVec(<<1, 0>>, 1)],
               [val |-> RNum(d, c.den), vec |-> RVec(<<0, 1>>, 1)]>>
        ELSE <<[val |-> RNum(a + d + r, 2 * c.den), vec |-> unit(2 * b, d - a + r)],
               [val |-> RNum(a + d - r, 2 * c.den), vec |-> unit(2 * b, d - a - r)]>>

\* The eigenpairs of c are rational.
RationalEig(c) ==
    LET a == c.num[1][1]
        b == c.num[1][2]
        d == c.num[2][2]
        r == Isqrt((a - d) * (a - d) + 4 * b * b)
    IN  /\ IsSquare((a - d) * (a - d) + 4 * b * b)
        /\ b # 0 => /\ IsSquare(4 * b * b + (d - a + r) * (d - a + r))
                    /\ IsSquare(4 * b * b + (d - a - r) * (d - a - r))

\* The eigenpairs of c are rational and its eigenvalues have rational roots.
ExactEig(c) ==
    /\ RationalEig(c)
    /\ \A k \in 1..2 : ExactSqrt(Eigenpairs(c)[k].val)

\* Mutant of eig: the eigenvectors come back one per row.
eig_rows(c) ==
    LET ep == Eigenpairs(c) IN
    {[eigenvalues |-> RVec(<<ep[o[1]].val.num[1] * ep[o[2]].val.den,
                             ep[o[2]].val.num[1] * ep[o[1]].val.den>>,
                           ep[o[1]].val.den * ep[o[2]].val.den),
      eigenvectors |->
          Transpose(Columns(RVec(ep[o[1]].vec.num, sg[1] * ep[o[1]].vec.den),
                            RVec(ep[o[2]].vec.num, sg[2] * ep[o[2]].vec.den)))] :
        o \in {<<1, 2>>, <<2, 1>>}, sg \in {-1, 1} \X {-1, 1}}

\* np.linalg.eig(C) for a symmetric 2 x 2 matrix: the eigenvalues and the
\* unit eigenvectors, one per column.  The order of the eigenvalues and the
\* sign of each eigenvector are LAPACK's choice: any of them may come back.
eig(c) ==
    LET ep == Eigenpairs(c) IN
    {[eigenvalues |-> RVec(<<ep[o[1]].val.num[1] * ep[o[2]].val.den,
                             ep[o[2]].val.num[1] * ep[o[1]].val.den>>,
                           ep[o[1]].val.den * ep[o[2]].val.den),
      eigenvectors |->
          Columns(RVec(ep[o[1]].vec.num, sg[1] * ep[o[1]].vec.den),
                  RVec(ep[o[2]].vec.num, sg[2] * ep[o[2]].vec.den))] :
        o \in {<<1, 2>>, <<2, 1>>}, sg \in {-1, 1} \X {-1, 1}}

\* Mutant of shaped_offset: a negative eigenvalue is clamped to 0 before the
\* root is taken (np.sqrt(np.maximum(eigenvalues, 0))).
shaped_offset_clamped(q, e, z) ==
    np_dot(q, VMul(np_sqrt(RVec([k \in 1..Len(e.num) |->
                                    IF e.num[k] < 0 THEN 0 ELSE e.num[k]], e.den)),
                   z))

\* np.dot(eigenvectors, np.sqrt(eigenvalues) * N[i, :])
\* np.sqrt of a negative eigenvalue is nan (numpy warns, it does not raise);
\* nan times the draw's component is nan, whatever the component, and np.dot
\* adds that product into every entry of its result.
shaped_offset(q, e, z) ==
    IF \E k \in 1..Len(e.num) : e.num[k] < 0
    THEN NaNVec(Len(e.num))
    ELSE np_dot(q, VMul(np_sqrt(e), z))

\* Mutant of shaped_points: the comprehension runs over range(1, lam).
shaped_points_short(xv, q, e, n, l) ==
    AsSeq([i \in 1..(l - 1) |-> VAdd(xv, shaped_offset(q, e, n[i + 1]))])

\* x + np.array([np.dot(eigenvectors, np.sqrt(eigenvalues) * N[i, :])
\*               for i in range(lam)])
shaped_points(xv, q, e, n, l) ==
    AsSeq([i \in 1..l |-> VAdd(xv, shaped_offset(q, e, n[i]))])

\* ------------------------------------------------------------- notebook
\* The standard-normal draws np.random.normal can return, cut to a few
\* integer points: with x = (0, 0) the points (1, 0) and (0, 1) have equal
\* fitness, lower than that of x, and the point (0, -1) has a higher one.
Offsets == {IVec(<<0, 0>>), IVec(<<1, 0>>), IVec(<<0, 1>>), IVec(<<0, -1>>)}

\* The start points x = np.random.rand(2) * 4 - 2 can return, cut to two.
Starts == {<<0, 0>>, <<-1, 1>>}

\* The value of a name no cell has assigned yet.
Unset == [num |-> <<>>, den |-> 1]

VARIABLES
    pc,          \* the next cell to run
    lam,         \* population size
    mu,          \* number of selected members
    x,           \* mean of the search distribution
    x_prev,      \* the mean the last mean update was applied to
    N,           \* the offsets drawn by the sampling cell
    x_t,         \* the sampled points x + N
    fits,        \* the fitness of each sampled point
    sorted_ids,  \* np.argsort(fits)
    w,           \* the normalized weight vector
    s,           \* the step vector
    C,           \* the covariance matrix
    C_prev,      \* the covariance matrix the last update was applied to
    learning_rate, \* the learning rate c_i the update is asked to use
    updates,     \* number of covariance updates applied so far
    eigenvalues, \* eigenvalues of C, as np.linalg.eig returned them
    eigenvectors, \* eigenvectors of C, one per column
    x_N,         \* the points x + N of the second sampling cell
    x_C,         \* the points sampled with the shape of C
    algo,        \* which reference loop runs, "none" in the CMA-ES cells
    alpha,       \* the learning rate of the gradient ES
    x_0,         \* the point the loop was initialized with
    x_best,      \* the best point of the gradient ES
    x_p,         \* the parent of the (1+lambda) ES
    gen,         \* iterations of the while loop completed
    idx,         \* the index i of the for loop
    evaluated,   \* the fitness values the loop has computed so far
    returned     \* the point the loop returned

sampleVars == <<lam, x, x_prev, N, x_t, fits>>
stepVars == <<mu, sorted_ids, w, s>>
covVars == <<C, C_prev, learning_rate, updates>>
eigVars == <<eigenvalues, eigenvectors, x_N, x_C>>

esVars == <<algo, alpha, x_0, x_best, x_p, gen, idx, evaluated, returned>>

vars == <<pc, sampleVars, stepVars, covVars, eigVars, esVars>>

\* No reference loop runs.
EsIdle ==
    /\ algo = "none"
    /\ alpha = Unset
    /\ x_0 = Unset
    /\ x_best = Unset
    /\ x_p = Unset
    /\ gen = 0
    /\ idx = 0
    /\ evaluated = {}
    /\ returned = Unset

Init ==
    /\ pc = "sample"
    /\ lam = 0
    /\ mu = 0
    /\ x = Unset
    /\ x_prev = Unset
    /\ N = <<>>
    /\ x_t = <<>>
    /\ fits = <<>>
    /\ sorted_ids = <<>>
    /\ w = Unset
    /\ s = Unset
    /\ C = Unset
    /\ C_prev = Unset
    /\ learning_rate = RNum(1, 1)
    /\ updates = 0
    /\ eigenvalues = Unset
    /\ eigenvectors = Unset
    /\ x_N = <<>>
    /\ x_C = <<>>
    /\ EsIdle

\* lam = ...; x = np.random.rand(2) * 4 - 2; N = np.random.normal(size=(lam,2))
\* x_t = x + N; fits = himmelblau(x_t[:, 0], x_t[:, 1])
\* The population size is drawn from ls and every offset from offs.
SampleOf(ls, offs) ==
    /\ pc = "sample"
    /\ \E l \in ls, x0 \in Starts :
         \E n \in [1..l -> offs] :
            LET pts == AsSeq([i \in 1..l |-> VAdd(IVec(x0), n[i])]) IN
            /\ lam' = l
            /\ x' = IVec(x0)
            /\ N' = n
            /\ x_t' = pts
            /\ fits' = [i \in 1..l |-> himmelblau_at(pts[i])]
    /\ pc' = "select"
    /\ UNCHANGED <<x_prev, stepVars, covVars, eigVars, esVars>>

Sample == SampleOf(1..MaxLam, Offsets)

\* mu = ...; sorted_ids = np.argsort(fits); w = ...; w /= np.sum(w)
\* weighted = N[sorted_ids[:mu]] * w.reshape(mu, 1); s = np.mean(weighted, axis=0)
\* mu is drawn from ms, at most lam.
SelectOf(ms) ==
    /\ pc = "select"
    /\ \E m \in ms \cap 1..lam :
         \E r \in step_cell(N, fits, m) :
            /\ mu' = m
            /\ sorted_ids' = r.sorted_ids
            /\ w' = r.w
            /\ s' = r.s
    /\ pc' = "update_mean"
    /\ UNCHANGED <<sampleVars, covVars, eigVars, esVars>>

Select == SelectOf(1..MaxLam)

\* x = x + s
UpdateMean ==
    /\ pc = "update_mean"
    /\ x' = update_mean(x, s)
    /\ x_prev' = x
    /\ pc' = "init_cov"
    /\ UNCHANGED <<lam, N, x_t, fits, stepVars, covVars, eigVars, esVars>>

\* C = np.eye(2)
InitCovariance ==
    /\ pc = "init_cov"
    /\ C' = eye(Dim)
    /\ pc' = "update_cov"
    /\ UNCHANGED <<sampleVars, stepVars, C_prev, learning_rate, updates, eigVars, esVars>>

\* C = C + np.outer(s, (s).T); the eigen sampling cell is the next one.
UpdateCovariance ==
    /\ pc = "update_cov"
    /\ C' = update_covariance(C, s)
    /\ C_prev' = C
    /\ updates' = updates + 1
    /\ pc' = "resample"
    /\ UNCHANGED <<sampleVars, stepVars, learning_rate, eigVars, esVars>>

Next ==
    \/ Sample
    \/ Select
    \/ UpdateMean
    \/ InitCovariance
    \/ UpdateCovariance

Spec == Init /\ [][Next]_vars

\* ------------------------------------------------ the cells, any configuration
\* The cells run with any population size lam >= 0, any mu >= 0 and any
\* learning rate: the notebook assigns lam and mu as literals and checks
\* neither; it has no learning rate, so the value asked for is never read.

\* Learning rates a run may be asked to use, 0 and 2 among them.
AnyLearningRates == {RNum(0, 1), RNum(1, 2), RNum(2, 1)}

\* numpy broadcasting of the shapes (r, 2) and (m, 1): the row counts are
\* compatible when they are equal or one of them is 1.
broadcasts(r, m) == r = m \/ r = 1 \/ m = 1

\* Mutant of step_cell_any: the cell raises on every mu outside 1..lam.
step_cell_validated(n, f, m) ==
    IF m < 1 \/ m > Len(n)
    THEN {[raised |-> TRUE, sorted_ids |-> ids, w |-> Unset, s |-> Unset] :
            ids \in argsort(f)}
    ELSE {[raised |-> FALSE, sorted_ids |-> r.sorted_ids, w |-> r.w, s |-> r.s] :
            r \in step_cell(n, f, m)}

\* The step cell run on any mu = m >= 0 and any population.
\* sorted_ids[:mu] names k = min(mu, lam) rows.  N[sorted_ids[:mu]] *
\* w.reshape(mu, 1) raises ValueError when k rows cannot be broadcast
\* against mu weights, after mu, sorted_ids and w are assigned.  With no
\* row (k = 0, or one weight stretched over no row) np.mean is taken over
\* an empty axis and is nan.  With one row and mu > 1 weights the row is
\* repeated for every weight.
step_cell_any(n, f, m) ==
    LET l  == Len(n)
        k  == IF m < l THEN m ELSE l
        wv == IF m = 0 THEN Unset ELSE weights(m)
    IN  IF ~broadcasts(k, m)
        THEN {[raised |-> TRUE, sorted_ids |-> ids, w |-> wv, s |-> Unset] :
                ids \in argsort(f)}
        ELSE IF k = 0
        THEN {[raised |-> FALSE, sorted_ids |-> ids, w |-> wv, s |-> NaNVec(Dim)] :
                ids \in argsort(f)}
        ELSE IF k = m
        THEN {[raised |-> FALSE, sorted_ids |-> r.sorted_ids, w |-> r.w, s |-> r.s] :
                r \in step_cell(n, f, m)}
        ELSE {[raised |-> FALSE, sorted_ids |-> ids, w |-> wv,
               s |-> np_mean(AsSeq([j \in 1..m |->
                        RVec([i \in 1..Dim |-> n[ids[1]].num[i] * wv.num[j]],
                             n[ids[1]].den * wv.den)]))] :
                ids \in argsort(f)}

CfgInit ==
    /\ pc = "sample"
    /\ lam = 0
    /\ mu = 0
    /\ x = Unset
    /\ x_prev = Unset
    /\ N = <<>>
    /\ x_t = <<>>
    /\ fits = <<>>
    /\ sorted_ids = <<>>
    /\ w = Unset
    /\ s = Unset
    /\ C = Unset
    /\ C_prev = Unset
    /\ learning_rate \in AnyLearningRates
    /\ updates = 0
    /\ eigenvalues = Unset
    /\ eigenvectors = Unset
    /\ x_N = <<>>
    /\ x_C = <<>>
    /\ EsIdle

\* The sampling cell with any lam >= 0: size=(0, 2) gives empty arrays.
SampleAny == SampleOf(0..MaxLam, Offsets)

\* The step cell with any mu >= 0; a raised ValueError ends the run.
SelectAny ==
    /\ pc = "select"
    /\ \E m \in 0..(MaxLam + 1) :
         \E r \in step_cell_any(N, fits, m) :
            /\ mu' = m
            /\ sorted_ids' = r.sorted_ids
            /\ w' = r.w
            /\ s' = r.s
            /\ pc' = IF r.raised THEN "ValueError" ELSE "update_mean"
    /\ UNCHANGED <<sampleVars, covVars, eigVars, esVars>>

CfgNext ==
    \/ SampleAny
    \/ SelectAny
    \/ UpdateMean
    \/ InitCovariance
    \/ UpdateCovariance

SpecCfg == CfgInit /\ [][CfgNext]_vars

\* ------------------------------------------------------------- the update alone
\* update_covariance as a function of its inputs: the covariance is drawn
\* from the symmetric matrices below, the step vector and the learning rate
\* from the sets below, and the update is applied up to MaxUpdates times.

\* Number of covariance updates applied in a row.
MaxUpdates == 2

\* Symmetric input matrices; the identity np.eye(2) is one of them.
SymMatrices ==
    {RMat(<<<<a, b>>, <<b, d>>>>, 1) : a \in 0..2, b \in -1..1, d \in 0..2}

\* Step vectors, the zero vector among them.
StepVectors ==
    {RVec(<<a, b>>, 1) : a \in -1..1, b \in -1..1} \cup {RVec(<<1, -1>>, 2)}

\* Learning rates in (0, 1].
LearningRates == {RNum(1, 4), RNum(1, 2), RNum(1, 1)}

CovInit ==
    /\ pc = "cov"
    /\ lam = 0
    /\ mu = 0
    /\ x = Unset
    /\ x_prev = Unset
    /\ N = <<>>
    /\ x_t = <<>>
    /\ fits = <<>>
    /\ sorted_ids = <<>>
    /\ w = Unset
    /\ s = Unset
    /\ C \in SymMatrices
    /\ C_prev = Unset
    /\ learning_rate \in LearningRates
    /\ updates = 0
    /\ eigenvalues = Unset
    /\ eigenvectors = Unset
    /\ x_N = <<>>
    /\ x_C = <<>>
    /\ EsIdle

\* C = C + np.outer(s, (s).T), for a step vector handed in
CovUpdate ==
    /\ pc = "cov"
    /\ updates < MaxUpdates
    /\ \E sv \in StepVectors :
         /\ s' = sv
         /\ C' = update_covariance(C, sv)
    /\ C_prev' = C
    /\ updates' = updates + 1
    /\ UNCHANGED <<pc, sampleVars, mu, sorted_ids, w, learning_rate, eigVars, esVars>>

CovNext == CovUpdate

SpecCov == CovInit /\ [][CovNext]_vars

\* ------------------------------------------------ updates from the identity
\* The covariance of a search space of n dimensions starts as the identity
\* and is updated up to MaxUpdates times, in one run by the additive form
\* the notebook computes, in another by the common formula of the text with
\* a learning rate c_i.  When the run is given no learning rate it takes
\* the default of the text, c_i = 2 / n^2.  SpecIdentity runs the
\* notebook's two dimensions with a given learning rate, SpecDefault runs
\* 1..MaxDim dimensions with the default.

\* Largest number of dimensions n of a run with the default learning rate.
MaxDim == 2

\* Mutant of default_learning_rate: 2 / n.
default_learning_rate_linear(n) == RNum(2, n)

\* "c_i = 2 / n^2 where n is the number of dimensions is a default parameter"
default_learning_rate(n) == RNum(2, n * n)

\* Step vectors of n dimensions, the zero vector among them.
StepVectorsOf(n) ==
    {RVec(v, 1) : v \in [1..n -> -1..1]}
        \cup {RVec([i \in 1..n |-> IF i % 2 = 1 THEN 1 ELSE -1], 2)}

\* The dimension is drawn from dims, the learning rate from rates (Unset:
\* none is given).
IdentityInitOf(dims, rates) ==
    /\ pc = "configure"
    /\ lam = 0
    /\ mu = 0
    /\ x = Unset
    /\ x_prev = Unset
    /\ N = <<>>
    /\ x_t = <<>>
    /\ fits = <<>>
    /\ sorted_ids = <<>>
    /\ w = Unset
    /\ s = Unset
    /\ \E n \in dims : C = eye(n)
    /\ C_prev = Unset
    /\ learning_rate \in rates
    /\ updates = 0
    /\ eigenvalues = Unset
    /\ eigenvectors = Unset
    /\ x_N = <<>>
    /\ x_C = <<>>
    /\ EsIdle

\* The form of the update is chosen, and a learning rate that was not given
\* gets its default.
Configure ==
    /\ pc = "configure"
    /\ pc' \in {"additive", "blended"}
    /\ learning_rate' = IF learning_rate = Unset
                        THEN default_learning_rate(Len(C.num))
                        ELSE learning_rate
    /\ UNCHANGED <<sampleVars, stepVars, C, C_prev, updates, eigVars, esVars>>

\* C = C + np.outer(s, (s).T)
AdditiveUpdate ==
    /\ pc = "additive"
    /\ updates < MaxUpdates
    /\ \E sv \in StepVectorsOf(Len(C.num)) :
         /\ s' = sv
         /\ C' = update_covariance(C, sv)
    /\ C_prev' = C
    /\ updates' = updates + 1
    /\ UNCHANGED <<pc, sampleVars, mu, sorted_ids, w, learning_rate, eigVars, esVars>>

\* C = (1 - c_i) C + c_i s s^T
BlendedUpdate ==
    /\ pc = "blended"
    /\ updates < MaxUpdates
    /\ \E sv \in StepVectorsOf(Len(C.num)) :
         /\ s' = sv
         /\ C' = common_update(C, sv, learning_rate)
    /\ C_prev' = C
    /\ updates' = updates + 1
    /\ UNCHANGED <<pc, sampleVars, mu, sorted_ids, w, learning_rate, eigVars, esVars>>

IdentityNext ==
    \/ Configure
    \/ AdditiveUpdate
    \/ BlendedUpdate

IdentityInit == IdentityInitOf({Dim}, LearningRates)

SpecIdentity == IdentityInit /\ [][IdentityNext]_vars

DefaultInit == IdentityInitOf(1..MaxDim, {Unset})

SpecDefault == DefaultInit /\ [][IdentityNext]_vars

\* ------------------------------------------------------------- the eigen cell alone
\* The eigen sampling cell as a function of its inputs: the mean is a start
\* point, the covariance is drawn from positive-semidefinite matrices
\* Q diag(p^2, q^2) Q^T whose eigenvectors and roots are rational, so that
\* np.linalg.eig and np.sqrt are computed exactly.

\* a * b for rational matrices
MatMul(a, b) ==
    RMat([i \in 1..Len(a.num) |->
            [j \in 1..Len(b.num[1]) |->
                Sum([k \in 1..Len(b.num) |-> a.num[i][k] * b.num[k][j]])]],
         a.den * b.den)

\* The diagonal matrix of a rational vector
Diag(v) ==
    RMat([i \in 1..Len(v.num) |->
            [j \in 1..Len(v.num) |-> IF i = j THEN v.num[i] ELSE 0]],
         v.den)

\* Rotations with rational entries
Rotations ==
    {RMat(<<<<1, 0>>, <<0, 1>>>>, 1),
     RMat(<<<<3, -4>>, <<4, 3>>>>, 5),
     RMat(<<<<12, 5>>, <<-5, 12>>>>, 13)}

\* Largest root of an eigenvalue of an input covariance.
MaxRoot == 2

\* Largest population size lam the eigen sampling cell is run with.
MaxDraws == 2

ExactCovariances ==
    {MatMul(MatMul(q, Diag(RVec(<<p1 * p1, p2 * p2>>, 1))), Transpose(q)) :
        q \in Rotations, p1 \in 0..MaxRoot, p2 \in 0..MaxRoot}

EigInit ==
    /\ pc = "resample"
    /\ lam \in 1..MaxDraws
    /\ \E x0 \in Starts : x = IVec(x0)
    /\ x_prev = Unset
    /\ N = <<>>
    /\ x_t = <<>>
    /\ fits = <<>>
    /\ mu = 0
    /\ sorted_ids = <<>>
    /\ w = Unset
    /\ s = Unset
    /\ C \in {c \in ExactCovariances : ExactEig(c)}
    /\ C_prev = Unset
    /\ learning_rate = RNum(1, 1)
    /\ updates = 0
    /\ eigenvalues = Unset
    /\ eigenvectors = Unset
    /\ x_N = <<>>
    /\ x_C = <<>>
    /\ EsIdle

\* N = np.random.normal(size=(lam, 2)); x_N = x + N
\* eigenvalues, eigenvectors = np.linalg.eig(C)
\* x_C = x + np.array([np.dot(eigenvectors, np.sqrt(eigenvalues) * N[i, :])
\*                     for i in range(lam)])
Resample ==
    /\ pc = "resample"
    /\ \E n \in [1..lam -> Offsets] :
         \E r \in eig(C) :
            /\ N' = n
            /\ x_N' = [i \in 1..lam |-> VAdd(x, n[i])]
            /\ eigenvalues' = r.eigenvalues
            /\ eigenvectors' = r.eigenvectors
            /\ x_C' = shaped_points(x, r.eigenvectors, r.eigenvalues, n, lam)
    /\ pc' = "resampled"
    /\ UNCHANGED <<lam, x, x_prev, x_t, fits, stepVars, covVars, esVars>>

EigNext == Resample

SpecEig == EigInit /\ [][EigNext]_vars

\* ------------------------------------------------ the eigen cell, indefinite C
\* The eigen sampling cell run on a covariance that is not positive
\* semidefinite: Q diag(e1, e2) Q^T with e1 < 0.  The cell checks nothing, so
\* nothing keeps such a matrix out.

\* Largest absolute value of an eigenvalue of an indefinite input.
MaxEig == 2

IndefiniteCovariances ==
    {MatMul(MatMul(q, Diag(RVec(<<e1, e2>>, 1))), Transpose(q)) :
        q \in Rotations, e1 \in (-MaxEig)..(-1), e2 \in (-MaxEig)..MaxEig}

IndefInit ==
    /\ pc = "resample"
    /\ lam \in 1..MaxDraws
    /\ \E x0 \in Starts : x = IVec(x0)
    /\ x_prev = Unset
    /\ N = <<>>
    /\ x_t = <<>>
    /\ fits = <<>>
    /\ mu = 0
    /\ sorted_ids = <<>>
    /\ w = Unset
    /\ s = Unset
    /\ C \in {c \in IndefiniteCovariances : RationalEig(c)}
    /\ C_prev = Unset
    /\ learning_rate = RNum(1, 1)
    /\ updates = 0
    /\ eigenvalues = Unset
    /\ eigenvectors = Unset
    /\ x_N = <<>>
    /\ x_C = <<>>
    /\ EsIdle

SpecIndef == IndefInit /\ [][EigNext]_vars

\* ------------------------------------------------ a generation and the next sample
\* The cells in notebook order, the eigen sampling cell included: the first
\* population, the step, the mean update, the covariance update and the
\* population sampled from the new mean and covariance.  np.linalg.eig and
\* np.sqrt are exact where I + s s^T has rational eigenvectors and roots:
\* the run has mu = 1, so that s is the best offset, and offsets t whose
\* length |t| and sqrt(1 + |t|^2) are both rational.
RunOffsets ==
    {RVec(<<0, 0>>, 1), RVec(<<3, 0>>, 4), RVec(<<9, 12>>, 20)}

RunNext ==
    \/ SampleOf(1..MaxDraws, RunOffsets)
    \/ SelectOf({1})
    \/ UpdateMean
    \/ InitCovariance
    \/ UpdateCovariance
    \/ Resample

SpecRun == Init /\ [][RunNext]_vars

\* ------------------------------------------------------------- reference loops
\* The three loops the text gives as pseudocode: the (1+1) ES, the
\* (1+lambda) ES and the gradient ES that tracks x_best.  f is the
\* Himmelblau function the exercises run them on, N(0, 1) a draw from
\* Offsets, "terminate" may become true before any iteration, and at most
\* MaxGens iterations are run.  One action is one pass through a loop body.

\* Largest number of iterations of the while loop.
MaxGens == 2

\* Learning rates alpha of the gradient ES.
Alphas == {RNum(1, 1), RNum(2, 1)}

\* f(p); f of a nan point is nan
fitness(p) == IF IsNaN(p) THEN NaNVec(1) ELSE himmelblau_at(p)

\* Mutant of accepts: the comparison is turned round.
accepts_worse(fn, fo) == ~IsNaN(fn) /\ ~IsNaN(fo) /\ RLess(fo, fn)

\* if f(x') < f(x): a comparison with nan is false
accepts(fn, fo) == ~IsNaN(fn) /\ ~IsNaN(fo) /\ RLess(fn, fo)

RECURSIVE SeqLCM(_)
\* the least common multiple of a non-empty sequence of positive integers
SeqLCM(q) ==
    IF Len(q) = 1 THEN q[1]
    ELSE LET r == SeqLCM(Tail(q)) IN (Head(q) \div GCD(Head(q), r)) * r

\* F - mu(F) for the fitness values fs, as integers in lowest terms: the
\* deviations lam * F_i - sum(F) divided by their common factor (all 0 when
\* the values are equal).
deviations(fs) ==
    LET L   == SeqLCM([i \in 1..Len(fs) |-> fs[i].den])
        ns  == AsSeq([i \in 1..Len(fs) |-> fs[i].num[1] * (L \div fs[i].den)])
        dev == AsSeq([i \in 1..Len(fs) |-> Len(fs) * ns[i] - Sum(ns)])
        g   == SeqGCD(dev)
    IN  IF g = 0 THEN dev ELSE AsSeq([i \in 1..Len(fs) |-> dev[i] \div g])

\* A = (F - mu(F)) / sigma(F) is computed exactly: a fitness value is nan or
\* sigma(F) = 0 (A is nan), or sigma(F) is rational.  With the deviations
\* r_i in lowest terms A_i = r_i * sqrt(lam / sum(r^2)).
ExactStd(fs) ==
    IF \E i \in 1..Len(fs) : IsNaN(fs[i]) THEN TRUE
    ELSE LET r == deviations(fs) IN
         /\ \A i \in 1..Len(fs) : Abs(r[i]) <= 1000
         /\ IsSquare(Len(fs) * Sum([i \in 1..Len(fs) |-> r[i] * r[i]]))

\* A = (F - mu(F)) / sigma(F); x = x - alpha (A . N) / lam
\* sigma(F) = 0 gives A = 0 / 0 = nan, and nan stays nan.
es_update(xv, a, fs, n) ==
    LET l == Len(fs)
        r == deviations(fs)
        S == Sum([i \in 1..l |-> r[i] * r[i]])
        t == Isqrt(l * S)
    IN  IF IsNaN(xv) \/ (\E i \in 1..l : IsNaN(fs[i])) \/ S = 0
        THEN NaNVec(Len(xv.num))
        ELSE VAdd(xv,
                  VSum([i \in 1..l |->
                          RVec([j \in 1..Len(xv.num) |->
                                   -(a.num[1] * r[i] * t * n[i].num[j])],
                               a.den * S * l * n[i].den)]))

\* Initialize x randomly; x_best = x (gradient ES)
EsInit ==
    /\ pc = "while"
    /\ algo \in {"1+1", "1+lambda", "es"}
    /\ \E x0 \in Starts : x = IVec(x0) /\ x_0 = IVec(x0)
    /\ x_best = IF algo = "es" THEN x ELSE Unset
    /\ x_p = Unset
    /\ lam \in IF algo = "1+1" THEN {1} ELSE 1..MaxDraws
    /\ alpha \in IF algo = "es" THEN Alphas ELSE {Unset}
    /\ gen = 0
    /\ idx = 0
    /\ evaluated = {}
    /\ returned = Unset
    /\ N = <<>>
    /\ fits = <<>>
    /\ x_prev = Unset
    /\ x_t = <<>>
    /\ mu = 0
    /\ sorted_ids = <<>>
    /\ w = Unset
    /\ s = Unset
    /\ C = Unset
    /\ C_prev = Unset
    /\ learning_rate = RNum(1, 1)
    /\ updates = 0
    /\ eigenvalues = Unset
    /\ eigenvectors = Unset
    /\ x_N = <<>>
    /\ x_C = <<>>

\* (1+1) ES: x' = x + N(0, 1); if f(x') < f(x): x = x'
OnePlusOneStep ==
    /\ pc = "while" /\ algo = "1+1" /\ gen < MaxGens
    /\ \E n \in Offsets :
         LET x1 == VAdd(x, n) IN
         /\ x' = IF accepts(fitness(x1), fitness(x)) THEN x1 ELSE x
         /\ evaluated' = evaluated \cup {fitness(x1), fitness(x)}
    /\ gen' = gen + 1
    /\ UNCHANGED <<pc, lam, x_prev, N, x_t, fits, stepVars, covVars, eigVars,
                   algo, alpha, x_0, x_best, x_p, idx, returned>>

\* while not terminate: the loop body is entered.
\* (1+lambda) ES: x_p = x.  Gradient ES: the for loop starts filling N and F.
BeginGeneration ==
    /\ pc = "while" /\ algo \in {"1+lambda", "es"} /\ gen < MaxGens
    /\ x_p' = IF algo = "1+lambda" THEN x ELSE x_p
    /\ N' = <<>>
    /\ fits' = <<>>
    /\ idx' = 1
    /\ pc' = "for"
    /\ UNCHANGED <<lam, x, x_prev, x_t, stepVars, covVars, eigVars,
                   algo, alpha, x_0, x_best, gen, evaluated, returned>>

\* (1+lambda) ES: x_i = x_p + N(0, 1); if f(x_i) < f(x): x = x_i
OnePlusLambdaStep ==
    /\ pc = "for" /\ algo = "1+lambda" /\ idx <= lam
    /\ \E n \in Offsets :
         LET x_i == VAdd(x_p, n) IN
         /\ x' = IF accepts(fitness(x_i), fitness(x)) THEN x_i ELSE x
         /\ evaluated' = evaluated \cup {fitness(x_i), fitness(x)}
    /\ idx' = idx + 1
    /\ UNCHANGED <<pc, lam, x_prev, N, x_t, fits, stepVars, covVars, eigVars,
                   algo, alpha, x_0, x_best, x_p, gen, returned>>

\* (1+lambda) ES, after the for loop: x_p = x
OnePlusLambdaEnd ==
    /\ pc = "for" /\ algo = "1+lambda" /\ idx > lam
    /\ x_p' = x
    /\ gen' = gen + 1
    /\ pc' = "while"
    /\ UNCHANGED <<lam, x, x_prev, N, x_t, fits, stepVars, covVars, eigVars,
                   algo, alpha, x_0, x_best, idx, evaluated, returned>>

\* Gradient ES: N_i = N(0, 1); F_i = f(x + N_i)
\* if F_i < f(x_best): x_best = x + N_i
EsStep ==
    /\ pc = "for" /\ algo = "es" /\ idx <= lam
    /\ \E n \in Offsets :
         LET F_i == fitness(VAdd(x, n)) IN
         /\ N' = Append(N, n)
         /\ fits' = Append(fits, F_i)
         /\ x_best' = IF accepts(F_i, fitness(x_best)) THEN VAdd(x, n) ELSE x_best
         /\ evaluated' = evaluated \cup {F_i, fitness(x_best)}
    /\ idx' = idx + 1
    /\ UNCHANGED <<pc, lam, x, x_prev, x_t, stepVars, covVars, eigVars,
                   algo, alpha, x_0, x_p, gen, returned>>

\* Gradient ES, after the for loop: A = (F - mu(F)) / sigma(F);
\* x = x - alpha (A . N) / lam.  Run where A is computed exactly.
EsEnd ==
    /\ pc = "for" /\ algo = "es" /\ idx > lam
    /\ ExactStd(fits)
    /\ x' = es_update(x, alpha, fits, N)
    /\ gen' = gen + 1
    /\ pc' = "while"
    /\ UNCHANGED <<lam, x_prev, N, x_t, fits, stepVars, covVars, eigVars,
                   algo, alpha, x_0, x_best, x_p, idx, evaluated, returned>>

\* return x / return x_p / return x_best, when terminate holds.  In the
\* (1+lambda) ES x_p has no value before the first iteration: reading it
\* raises NameError and no point is returned.
Return ==
    /\ pc = "while"
    /\ returned' = IF algo = "1+1" THEN x
                   ELSE IF algo = "1+lambda" THEN x_p ELSE x_best
    /\ pc' = IF algo = "1+lambda" /\ x_p = Unset THEN "NameError" ELSE "returned"
    /\ UNCHANGED <<sampleVars, stepVars, covVars, eigVars,
                   algo, alpha, x_0, x_best, x_p, gen, idx, evaluated>>

EsNext ==
    \/ OnePlusOneStep
    \/ BeginGeneration
    \/ OnePlusLambdaStep
    \/ OnePlusLambdaEnd
    \/ EsStep
    \/ EsEnd
    \/ Return

SpecES == EsInit /\ [][EsNext]_vars

\* ------------------------------------------------------------- claims
\* The step cell has run: mu, sorted_ids, w and s are assigned.
Selected == pc \in {"update_mean", "init_cov", "update_cov", "resample"}

ZeroVec == RVec([j \in 1..Dim |-> 0], 1)

\* C1: s is the weighted sum of the mu best offsets, sum_k w_k * t_(k), with
\* the normalized weights and no further division by mu or lambda.
C1_StepIsWeightedSum ==
    Selected => s = VSum(weighted_rows(N, sorted_ids, mu, w))

\* C2: after an update with learning rate c the covariance is
\* (1 - c) * C + c * outer(s, s), C being the matrix the update was applied to.
C2_BlendedUpdate ==
    updates > 0 => C = common_update(C_prev, s, learning_rate)

C5_Symmetric ==
    pc = "cov" => \A i, j \in 1..Dim : C.num[i][j] = C.num[j][i]

C5_Witness ==
    /\ pc = "cov" /\ updates >= 2
    /\ C.num[1][2] # 0
    /\ s.num[1] # s.num[2]
    /\ learning_rate # RNum(1, 1)

\* C6: the normalized weight vector has mu entries, sums to 1, is
\* non-increasing in the rank k and has no negative entry.
C6_WeightsNormalized ==
    Selected =>
        /\ Len(w.num) = mu
        /\ w.den > 0
        /\ Sum(w.num) = w.den
        /\ \A k \in 1..(mu - 1) : w.num[k] >= w.num[k + 1]
        /\ \A k \in 1..mu : w.num[k] >= 0

C6_Witness ==
    /\ pc = "update_mean" /\ mu >= 3
    /\ w.num[1] > w.num[2] /\ w.num[2] > w.num[3] /\ w.num[3] > 0

\* C7: with mu = 1 the step vector is exactly the raw offset of a member of
\* lowest fitness, and the single weight is 1.
C7_SingleBest ==
    (Selected /\ mu = 1) =>
        /\ w = RNum(1, 1)
        /\ s = N[sorted_ids[1]]
        /\ \A i \in 1..lam : RLeq(fits[sorted_ids[1]], fits[i])

C7_Witness ==
    /\ Selected /\ mu = 1 /\ lam >= 3
    /\ \E i \in 1..lam : RLess(fits[sorted_ids[1]], fits[i])
    /\ sorted_ids[1] # 1
    /\ s # ZeroVec

\* Strictly increasing transformations of the objective: 3 f + 7 and f^3.
Transforms == {"affine", "cube"}

Transformed(g, f) ==
    AsSeq([i \in 1..Len(f) |->
        IF g = "affine"
        THEN RNum(3 * f[i].num[1] + 7 * f[i].den, f[i].den)
        ELSE RNum(f[i].num[1] * f[i].num[1] * f[i].num[1],
                  f[i].den * f[i].den * f[i].den)])

\* The step vectors the step cell can return for offsets n, fitness f, mu = m.
Steps(n, f, m) == {r.s : r \in step_cell(n, f, m)}

\* C8: s depends on the fitness values only through their order: when the
\* step cell has run, running it on the same offsets with a strictly
\* increasing transformation of the fitness values returns the same step
\* vectors, s among them.
C8_RankOnly ==
    pc = "update_mean" =>
        LET base == Steps(N, fits, mu) IN
        \A g \in Transforms :
            LET other == Steps(N, Transformed(g, fits), mu) IN
            other = base /\ s \in other

C8_Witness ==
    /\ pc = "update_mean" /\ mu >= 2 /\ lam > mu
    /\ \E i, j \in 1..lam : RLess(fits[i], fits[j])
    /\ s # ZeroVec
    /\ Cardinality(Steps(N, fits, mu)) = 1

\* C9 as claimed: the sort is stable, so of two members of equal fitness the
\* one drawn earlier gets the better rank.
C9_StableTies ==
    Selected =>
        \A a, b \in 1..lam :
            (a < b /\ fits[sorted_ids[a]] = fits[sorted_ids[b]]) =>
                sorted_ids[a] < sorted_ids[b]

\* C9 as amended: sorted_ids ranks every member once, by ascending fitness,
\* and s is computed from the first mu of them; members of equal fitness may
\* come in either order.
C9_AscendingRanks ==
    Selected =>
        /\ Len(sorted_ids) = lam
        /\ {sorted_ids[a] : a \in 1..lam} = 1..lam
        /\ \A a, b \in 1..lam :
              a < b => RLeq(fits[sorted_ids[a]], fits[sorted_ids[b]])
        /\ s = step(N, sorted_ids, mu)

C9_Witness ==
    /\ Selected
    /\ \E a, b \in 1..lam :
          /\ a <= mu /\ mu < b
          /\ fits[sorted_ids[a]] = fits[sorted_ids[b]]
          /\ sorted_ids[a] > sorted_ids[b]
          /\ N[sorted_ids[a]] # N[sorted_ids[b]]

\* The linear map of the eigen sampling cell, A = Q * diag(sqrt(e)).
ShapeMap == MatMul(eigenvectors, Diag(np_sqrt(eigenvalues)))

\* C10: the eigen sampling cell maps every draw z_i = N[i] to the offset
\* t_i = A z_i with A = Q diag(sqrt(e)) and to the point x_i = mean + t_i,
\* Q and e decompose the covariance (Q diag(e) Q^T = C with Q orthogonal),
\* and A A^T is the covariance, which makes x_i a draw from
\* Normal(mean, covariance).
C10_ShapedSample ==
    pc = "resampled" =>
        /\ MatMul(ShapeMap, Transpose(ShapeMap)) = C
        /\ MatMul(eigenvectors, Transpose(eigenvectors)) = eye(Dim)
        /\ MatMul(MatMul(eigenvectors, Diag(eigenvalues)), Transpose(eigenvectors)) = C
        /\ Len(x_C) = lam
        /\ \A i \in 1..lam : x_C[i] = VAdd(x, np_dot(ShapeMap, N[i]))

C10_Witness ==
    /\ pc = "resampled" /\ lam >= 2
    /\ C.num[1][2] # 0
    /\ eigenvalues.num[1] # eigenvalues.num[2]
    /\ eigenvalues.num[1] * eigenvalues.num[2] # 0
    /\ \E i \in 1..lam : x_C[i] # x_N[i] /\ x_C[i] # x

\* C11: the eigen sampling cell returns exactly lam draws and lam points, and
\* every draw and every point has the dimension of the mean x.
C11_SampleShape ==
    pc = "resampled" =>
        /\ Len(N) = lam /\ Len(x_N) = lam /\ Len(x_C) = lam
        /\ \A i \in 1..lam :
              /\ Len(N[i].num) = Len(x.num)
              /\ Len(x_N[i].num) = Len(x.num)
              /\ Len(x_C[i].num) = Len(x.num)

C11_Witness ==
    /\ pc = "resampled" /\ lam = MaxDraws
    /\ Len(x_C) = MaxDraws
    /\ C # eye(Dim)
    /\ x_C[1] # x_C[2]

\* The symmetric 2 x 2 matrix c has a negative eigenvalue.
NegativeEigenvalue(c) == \E k \in 1..2 : Eigenpairs(c)[k].val.num[1] < 0

\* C12 as claimed: on a covariance with a negative eigenvalue the sampling
\* cell signals an error and returns no population.
C12_NegativeRejected ==
    NegativeEigenvalue(C) => (pc # "resampled" /\ x_C = <<>>)

\* C12 as amended: on a covariance with a negative eigenvalue the sampling
\* cell runs to its end without an error and without clamping: np.linalg.eig
\* returns the negative eigenvalue as it is, and x_C holds lam points whose
\* coordinates are all nan, while the unshaped points x_N = x + N are numbers.
C12_NegativeGivesNaN ==
    (pc = "resampled" /\ NegativeEigenvalue(C)) =>
        /\ \E k \in 1..Dim : eigenvalues.num[k] < 0
        /\ MatMul(MatMul(eigenvectors, Diag(eigenvalues)), Transpose(eigenvectors)) = C
        /\ Len(x_C) = lam
        /\ \A i \in 1..lam : IsNaN(x_C[i]) /\ ~IsNaN(x_N[i])

C12_Witness ==
    /\ pc = "resampled" /\ lam = MaxDraws
    /\ C.num[1][2] # 0
    /\ \E k \in 1..Dim : eigenvalues.num[k] < 0
    /\ \E k \in 1..Dim : eigenvalues.num[k] > 0
    /\ N[1] = IVec(<<0, 0>>) /\ IsNaN(x_C[1])
    /\ N[2] # IVec(<<0, 0>>) /\ IsNaN(x_C[2])

\* lam and mu are assigned: the sampling cell and the step cell were run.
Configured == pc \notin {"sample", "select"}

\* The configuration the spec calls invalid.
InvalidConfiguration ==
    \/ lam < 1
    \/ mu < 1
    \/ mu > lam
    \/ ~(RLess(RNum(0, 1), learning_rate) /\ RLeq(learning_rate, RNum(1, 1)))

\* The step cell cannot broadcast min(mu, lam) rows against mu weights.
ShapeMismatch == mu > lam /\ lam # 1 /\ mu # 1

MeanUpdated == pc \in {"init_cov", "update_cov", "resample"}

\* The mean of the end-to-end scenario.
Origin == IVec(<<0, 0>>)

\* C14 as claimed: starting from the mean (0, 0), the Himmelblau value of
\* the new mean x + s is lower than or equal to that of the old mean
\* (compared where the new mean has a denominator of at most 8, which keeps
\* the fourth powers within TLC's integers).
C14_MeanImproves ==
    (MeanUpdated /\ x_prev = Origin /\ x.den <= 8) =>
        RLeq(himmelblau_at(x), himmelblau_at(x_prev))

\* C14 as amended: after one generation the new mean is the old mean plus s,
\* a point of the same dimension; nothing compares it with the old mean.
\* With mu = 1 it is the best sampled point, so its Himmelblau value is the
\* lowest fitness of the population, which may be above the old mean's.
C14_MeanMoved ==
    MeanUpdated =>
        /\ x = VAdd(x_prev, s)
        /\ Len(x.num) = Len(x_prev.num)
        /\ ~IsNaN(x)
        /\ mu = 1 =>
              /\ x = x_t[sorted_ids[1]]
              /\ himmelblau_at(x) = fits[sorted_ids[1]]
              /\ \A i \in 1..lam : RLeq(himmelblau_at(x), fits[i])

C14_Witness ==
    /\ MeanUpdated /\ x_prev = Origin
    /\ lam >= 2 /\ mu = 1
    /\ s # ZeroVec
    /\ RLess(himmelblau_at(x_prev), himmelblau_at(x))

\* The point a reference loop tracks as its best: x_best in the gradient
\* ES, x in the (1+1) ES and the (1+lambda) ES.
BestPoint == IF algo = "es" THEN x_best ELSE x

\* C15: in each reference loop the fitness of the tracked best point never
\* increases from one step to the next, and a returned point has a fitness
\* lower than or equal to that of the initial point and to every fitness
\* value computed during the run.
C15_BestNeverWorse ==
    /\ [][RLeq(fitness(BestPoint'), fitness(BestPoint))]_vars
    /\ [](pc = "returned" =>
            /\ ~IsNaN(returned)
            /\ RLeq(fitness(returned), fitness(x_0))
            /\ \A v \in evaluated : ~IsNaN(v) => RLeq(fitness(returned), v))

C15_Witness ==
    /\ pc = "returned" /\ algo = "es" /\ gen = MaxGens /\ lam >= 2
    /\ ~IsNaN(x) /\ x # x_0 /\ x # returned
    /\ RLess(fitness(returned), fitness(x_0))
    /\ \E v \in evaluated : RLess(fitness(returned), v) /\ RLess(fitness(x_0), v)

\* The cells in notebook order: each pair is a cell and the one after it.
StepOrder ==
    {<<"sample", "select">>, <<"select", "update_mean">>,
     <<"update_mean", "init_cov">>, <<"init_cov", "update_cov">>,
     <<"update_cov", "resample">>, <<"resample", "resampled">>}

\* A step goes from a cell to the cell after it.
NextCell == (<<pc, pc'>>) \in StepOrder

\* C16: the cells of a generation run in the order sample (with its
\* evaluation), select, mean update, covariance update; the next population
\* is sampled only after the covariance update, from the new mean
\* x_prev + s, from the new covariance I + s s^T and from freshly drawn N,
\* and nothing of the second sample exists before.
C16_GenerationOrder ==
    /\ [][NextCell]_vars
    /\ [](pc # "resampled" => (x_N = <<>> /\ x_C = <<>>))
    /\ [](pc = "resampled" =>
            /\ updates = 1
            /\ x = VAdd(x_prev, s)
            /\ C = MAdd(eye(Dim), outer(s, s))
            /\ MatMul(ShapeMap, Transpose(ShapeMap)) = C
            /\ \A i \in 1..lam :
                  /\ x_N[i] = VAdd(VAdd(x_prev, s), N[i])
                  /\ x_C[i] = VAdd(VAdd(x_prev, s), np_dot(ShapeMap, N[i])))

C16_Witness ==
    /\ pc = "resampled" /\ lam >= 2
    /\ s # ZeroVec /\ s.num[1] # 0 /\ s.num[2] # 0
    /\ C.num[1][2] # 0
    /\ \E i \in 1..lam : VAdd(x_prev, N[i]) # x_t[i]
    /\ \E i \in 1..lam : x_C[i] # x_N[i] /\ x_C[i] # VAdd(x_prev, N[i])

RECURSIVE SortedSeq(_)
\* The members of a set of integers in ascending order
SortedSeq(S) ==
    IF S = {} THEN <<>>
    ELSE LET m == CHOOSE a \in S : \A b \in S : a <= b
         IN  <<m>> \o SortedSeq(S \ {m})

\* The rows and columns of the integer matrix m that q names
Minor(m, q) == AsSeq([i \in 1..Len(q) |-> AsSeq([j \in 1..Len(q) |-> m[q[i]][q[j]]])])

RECURSIVE Det(_)
\* The determinant of a square integer matrix, expanded along its first row
Det(m) ==
    IF Len(m) = 1 THEN m[1][1]
    ELSE Sum([j \in 1..Len(m) |->
                (IF j % 2 = 1 THEN 1 ELSE -1) * m[1][j]
                * Det(AsSeq([i \in 1..(Len(m) - 1) |->
                        AsSeq([k \in 1..(Len(m) - 1) |->
                            m[i + 1][IF k < j THEN k ELSE k + 1]])]))])

\* The symmetric matrix c is positive semidefinite, that is, has no negative
\* eigenvalue: every principal minor is >= 0.
PositiveSemidefinite(c) ==
    /\ c.den > 0
    /\ \A i, j \in 1..Len(c.num) : c.num[i][j] = c.num[j][i]
    /\ \A I \in SUBSET (1..Len(c.num)) :
          I # {} => Det(Minor(c.num, SortedSeq(I))) >= 0

\* The learning rate c lies in (0, 1].
InRange(c) == RLess(RNum(0, 1), c) /\ RLeq(c, RNum(1, 1))

\* C17: starting from the identity, the covariance is positive semidefinite
\* after any number of updates, with the additive form and with the blended
\* form for every learning rate in (0, 1] and every step vector.
C17_StaysPSD ==
    (pc = "additive" \/ (pc = "blended" /\ InRange(learning_rate))) =>
        PositiveSemidefinite(C)

C17_Witness ==
    /\ pc = "blended" /\ updates = MaxUpdates
    /\ learning_rate = RNum(1, 4)
    /\ Len(C.num) = 2
    /\ C.num[1][2] < 0
    /\ s.den = 2
    /\ C_prev # eye(2)

\* The run took the default learning rate of its dimension.
Defaulted ==
    /\ pc \in {"additive", "blended"}
    /\ learning_rate = default_learning_rate(Len(C.num))

\* C18 as claimed: for every dimension n >= 1 the default learning rate
\* 2 / n^2 lies in (0, 1].
C18_DefaultInRange == Defaulted => InRange(learning_rate)

\* C18 as amended: for every dimension n >= 2 the default learning rate
\* 2 / n^2 lies in (0, 1/2], hence in (0, 1]; for n = 1 it is 2.
C18_DefaultInRangeFromTwo ==
    Defaulted =>
        /\ Len(C.num) >= 2 =>
              (InRange(learning_rate) /\ RLeq(learning_rate, RNum(1, 2)))
        /\ Len(C.num) = 1 => learning_rate = RNum(2, 1)

C18_Witness ==
    /\ Defaulted /\ pc = "blended"
    /\ Len(C.num) >= 2
    /\ updates >= 1
    /\ C # eye(Len(C.num))

=============================================================================
